---- MODULE Spec2Model ----
(***************************************************************************)
(* A model of the Dispatch library: dispatching.DispatchGroup              *)
(* (src/dispatching.py) and the older dispatch.DispatchGroup               *)
(* (src/dispatch.py).  A group owns a deque of (bind_args, function)       *)
(* pairs; a call walks the deque and serves the first entry whose binder   *)
(* does not raise TypeError.                                               *)
(*                                                                         *)
(* Python values are records [ty, n, s, items]: ty is the name of the      *)
(* value's class, n the number of an int, s the text of a str or float,    *)
(* items the elements of a list, tuple or dict.                            *)
(***************************************************************************)
EXTENDS Integers, Sequences, FiniteSets, TLC

VARIABLES lib, suite, callees, last, history

vars == <<lib, suite, callees, last, history>>

(***************************************************************************)
(* Bounds                                                                  *)
(***************************************************************************)
MaxEntries == 3

\* The depth of nested dispatches at which the interpreter gives up with
\* RecursionError
MaxDepth == 2

(***************************************************************************)
(* Python values                                                           *)
(***************************************************************************)
None == [ty |-> "NoneType", n |-> 0, s |-> "", items |-> <<>>]

IntV(k) == [ty |-> "int", n |-> k, s |-> "", items |-> <<>>]

StrV(t) == [ty |-> "str", n |-> 0, s |-> t, items |-> <<>>]

\* A float k.frac with a non-zero fractional part (1.5 is FloatV(1, "5")).
FloatV(k, frac) == [ty |-> "float", n |-> k, s |-> frac, items |-> <<>>]

ListV(xs) == [ty |-> "list", n |-> 0, s |-> "", items |-> xs]

TupleV(xs) == [ty |-> "tuple", n |-> 0, s |-> "", items |-> xs]

DictV(kvs) == [ty |-> "dict", n |-> 0, s |-> "",
               items |-> [i \in 1..Len(kvs) |-> TupleV(<<StrV(kvs[i].name), kvs[i].value>>)]]

ObjV(cls) == [ty |-> cls, n |-> 0, s |-> "", items |-> <<>>]

\* The classes of the tests: class Foo, class Bar(Foo); every class derives
\* from object.
Mro(cls) == IF cls = "Bar" THEN {"Bar", "Foo", "object"} ELSE {cls, "object"}

\* isinstance(x, cls)
IsInstance(x, cls) == cls \in Mro(x.ty)

Bool(b) == IF b THEN "True" ELSE "False"

(***************************************************************************)
(* Annotations: the objects a parameter can be annotated with.  cls tells  *)
(* what kind of object the annotation is: Parameter.empty, a class, a      *)
(* function, or any other value.  all_match(a) is a function that closes   *)
(* over the matcher of the annotation a (icls, iname, v).  An annotation   *)
(* written dispatching.attr(a) in a def statement is an expression until   *)
(* the statement is executed.                                              *)
(***************************************************************************)
Empty == [cls |-> "empty", name |-> "", v |-> None, icls |-> "", iname |-> ""]

TypeAnn(t) == [cls |-> "type", name |-> t, v |-> None, icls |-> "", iname |-> ""]

FuncAnn(f) == [cls |-> "function", name |-> f, v |-> None, icls |-> "", iname |-> ""]

ValueAnn(x) == [cls |-> "value", name |-> "", v |-> x, icls |-> "", iname |-> ""]

\* dispatching.attr(annotation), as written in a def statement
AttrCall(attr, annotation) ==
    [cls |-> "expression", name |-> attr, v |-> annotation.v,
     icls |-> annotation.cls, iname |-> annotation.name]

\* isinstance(annotation, type)
IsType(annotation) == annotation.cls = "type"

\* callable(annotation): classes and functions are callable
Callable(annotation) == annotation.cls \in {"type", "function"}

\* The user predicates of the tests, by what their bodies do on a value x.
\* The result is "True" or "False", or the name of the error the body raises.
\*   is_even          lambda x: x % 2 == 0
\*   is_odd           lambda x: x % 2 == 1
\*   is_length_k      lambda x: len(x) == k
\*   parses_positive  lambda x: int(x) > 0  (the model's strings are not numerals)
PredCall(f, x) ==
    CASE f = "is_even" ->
           IF x.ty = "int" THEN Bool(x.n % 2 = 0)
           ELSE IF x.ty = "float" THEN "False" ELSE "TypeError"
      [] f = "is_odd" ->
           IF x.ty = "int" THEN Bool(x.n % 2 = 1)
           ELSE IF x.ty = "float" THEN "False" ELSE "TypeError"
      [] f \in {"is_length_1", "is_length_2"} ->
           LET k == IF f = "is_length_1" THEN 1 ELSE 2
           IN  IF x.ty \in {"list", "tuple", "dict"} THEN Bool(Len(x.items) = k)
               ELSE IF x.ty = "str" THEN Bool(Len(x.s) = k) ELSE "TypeError"
      [] f = "parses_positive" ->
           IF x.ty \in {"int", "float"} THEN Bool(x.n > 0)
           ELSE IF x.ty = "str" THEN "ValueError" ELSE "TypeError"
      [] OTHER -> "TypeError"

\* Calling a class on x and taking the truth value of the new object.
TypeCall(t, x) ==
    CASE t = "int" ->
           IF x.ty \in {"int", "float"} THEN Bool(x.n # 0)
           ELSE IF x.ty = "str" THEN "ValueError" ELSE "TypeError"
      [] t = "str" -> Bool(~(x.ty = "str" /\ x.s = ""))
      [] t \in {"list", "tuple"} ->
           IF x.ty \in {"list", "tuple", "dict"} THEN Bool(Len(x.items) > 0)
           ELSE IF x.ty = "str" THEN Bool(x.s # "") ELSE "TypeError"
      [] OTHER -> "TypeError"

\* _make_param_matcher testing callable(annotation) before
\* isinstance(annotation, type)
_make_param_matcher_callable_first(annotation) ==
    IF Callable(annotation) THEN [kind |-> "call", annotation |-> annotation]
    ELSE IF IsType(annotation) THEN [kind |-> "isinstance", annotation |-> annotation]
    ELSE [kind |-> "equals", annotation |-> annotation]

\* DispatchGroup._make_param_matcher: the matcher is one of three lambdas,
\* each closing over the annotation.
_make_param_matcher(annotation) ==
    IF IsType(annotation) THEN [kind |-> "isinstance", annotation |-> annotation]
    ELSE IF Callable(annotation) THEN [kind |-> "call", annotation |-> annotation]
    ELSE [kind |-> "equals", annotation |-> annotation]

\* The annotation that an all_match closure was made of
Inner(annotation) ==
    [cls |-> annotation.icls, name |-> annotation.iname, v |-> annotation.v,
     icls |-> "", iname |-> ""]

\* all_match(annotation) of dispatching.py: the function
\* lambda args: all(matcher(arg) for arg in args), its matcher made of the
\* annotation when all_match is called.
all_match(annotation) ==
    [cls |-> "function", name |-> "all_match", v |-> annotation.v,
     icls |-> annotation.cls, iname |-> annotation.name]

\* annotation(x) for a callable annotation that is a class or a predicate
\* of the tests
CallPlain(annotation, x) ==
    IF annotation.cls = "function" THEN PredCall(annotation.name, x)
    ELSE IF annotation.cls = "type" THEN TypeCall(annotation.name, x)
    ELSE "TypeError"

\* matcher(x) for the matcher that an all_match closure holds; the closures
\* of the model are made of classes, predicates of the tests and literals.
ApplyPlain(matcher, x) ==
    CASE matcher.kind = "isinstance" -> Bool(IsInstance(x, matcher.annotation.name))
      [] matcher.kind = "call" -> CallPlain(matcher.annotation, x)
      [] OTHER -> Bool(x = matcher.annotation.v)

\* all(matcher(arg) for arg in xs[k..]): stops at the first falsy result or
\* the first error.
RECURSIVE AllOf(_, _, _)
AllOf(matcher, xs, k) ==
    IF k > Len(xs) THEN "True"
    ELSE LET r == ApplyPlain(matcher, xs[k])
         IN  IF r = "True" THEN AllOf(matcher, xs, k + 1) ELSE r

\* The call of an all_match closure; the programs of the model hand it
\* tuples and lists, other values of the model are not iterable.
AllMatchCall(annotation, args) ==
    IF args.ty \in {"tuple", "list"}
    THEN AllOf(_make_param_matcher(Inner(annotation)), args.items, 1)
    ELSE "TypeError"

\* annotation(x) for a callable annotation
CallAnnotation(annotation, x) ==
    IF annotation.cls = "function" /\ annotation.name = "all_match"
    THEN AllMatchCall(annotation, x)
    ELSE CallPlain(annotation, x)

(***************************************************************************)
(* Matchers                                                                *)
(***************************************************************************)
\* param_matcher(x): "True", "False" or the error raised
ApplyMatcher(matcher, x) ==
    CASE matcher.kind = "isinstance" -> Bool(IsInstance(x, matcher.annotation.name))
      [] matcher.kind = "call" -> CallAnnotation(matcher.annotation, x)
      [] OTHER -> Bool(x = matcher.annotation.v)

\* _make_all_matchers without its test of the annotation: a matcher for
\* every parameter, annotated or not.
RECURSIVE _make_all_matchers_every(_)
_make_all_matchers_every(parameters) ==
    IF parameters = <<>> THEN <<>>
    ELSE LET param == Head(parameters)
         IN  <<[name |-> param.name,
                matcher |-> _make_param_matcher(param.annotation)]>>
             \o _make_all_matchers_every(Tail(parameters))

\* DispatchGroup._make_all_matchers: one (name, matcher) pair per annotated
\* parameter, in signature order.
RECURSIVE _make_all_matchers(_)
_make_all_matchers(parameters) ==
    IF parameters = <<>> THEN <<>>
    ELSE LET param == Head(parameters)
         IN  (IF param.annotation # Empty
              THEN <<[name |-> param.name,
                      matcher |-> _make_param_matcher(param.annotation)]>>
              ELSE <<>>) \o _make_all_matchers(Tail(parameters))

(***************************************************************************)
(* Signatures.  A parameter is [name, kind, hasDefault, annotation]; the   *)
(* kinds are those a def statement of the library's era can declare.  A    *)
(* call's named arguments, and the arguments mapping of a BoundArguments,  *)
(* are sequences of [name, value] in insertion order.                      *)
(***************************************************************************)
Param(name, kind, hasDefault, annotation) ==
    [name |-> name, kind |-> kind, hasDefault |-> hasDefault, annotation |-> annotation]

Pos(name, annotation) == Param(name, "POSITIONAL_OR_KEYWORD", FALSE, annotation)

PosDefault(name, annotation) == Param(name, "POSITIONAL_OR_KEYWORD", TRUE, annotation)

VarPos(name, annotation) == Param(name, "VAR_POSITIONAL", FALSE, annotation)

KwOnly(name, annotation) == Param(name, "KEYWORD_ONLY", FALSE, annotation)

VarKw(name, annotation) == Param(name, "VAR_KEYWORD", FALSE, annotation)

\* name in mapping
HasKey(mapping, name) == \E i \in 1..Len(mapping) : mapping[i].name = name

\* mapping[name], for a name in the mapping
Get(mapping, name) == mapping[CHOOSE i \in 1..Len(mapping) : mapping[i].name = name].value

\* mapping without the key name (dict.pop)
RECURSIVE Pop(_, _)
Pop(mapping, name) ==
    IF mapping = <<>> THEN <<>>
    ELSE IF Head(mapping).name = name THEN Tail(mapping)
    ELSE <<Head(mapping)>> \o Pop(Tail(mapping), name)

BindError == [ok |-> FALSE, arguments |-> <<>>]

\* The first loop of inspect.Signature._bind: positional arguments against
\* the parameters in order.  i is the next parameter, j the next positional
\* argument.  On success, rest is the index of the first parameter left for
\* the keyword phase (parameters_ex followed by the unconsumed parameters).
RECURSIVE BindPositional(_, _, _, _, _, _)
BindPositional(parameters, args, kwargs, i, j, arguments) ==
    IF j > Len(args)
    THEN \* no more positional arguments
         IF i > Len(parameters)
         THEN [ok |-> TRUE, arguments |-> arguments, rest |-> i]
         ELSE LET param == parameters[i]
              IN  IF param.kind = "VAR_POSITIONAL"
                  THEN [ok |-> TRUE, arguments |-> arguments, rest |-> i + 1]
                  ELSE IF HasKey(kwargs, param.name)
                  THEN [ok |-> TRUE, arguments |-> arguments, rest |-> i]
                  ELSE IF param.kind = "VAR_KEYWORD" \/ param.hasDefault
                  THEN [ok |-> TRUE, arguments |-> arguments, rest |-> i]
                  ELSE [ok |-> FALSE, arguments |-> <<>>, rest |-> i]
    ELSE \* a positional argument to process
         IF i > Len(parameters)
         THEN [ok |-> FALSE, arguments |-> <<>>, rest |-> i]
         ELSE LET param == parameters[i]
              IN  IF param.kind \in {"VAR_KEYWORD", "KEYWORD_ONLY"}
                  THEN [ok |-> FALSE, arguments |-> <<>>, rest |-> i]
                  ELSE IF param.kind = "VAR_POSITIONAL"
                  THEN [ok |-> TRUE,
                        arguments |-> Append(arguments,
                            [name |-> param.name,
                             value |-> TupleV(SubSeq(args, j, Len(args)))]),
                        rest |-> i + 1]
                  ELSE IF HasKey(kwargs, param.name)
                  THEN [ok |-> FALSE, arguments |-> <<>>, rest |-> i]
                  ELSE BindPositional(parameters, args, kwargs, i + 1, j + 1,
                           Append(arguments, [name |-> param.name, value |-> args[j]]))

\* The second loop of inspect.Signature._bind: the remaining parameters
\* against the named arguments, then the named arguments left over.
RECURSIVE BindKeywords(_, _, _, _, _)
BindKeywords(parameters, kwargs, i, arguments, kwargs_param) ==
    IF i > Len(parameters)
    THEN IF kwargs # <<>>
         THEN IF kwargs_param # ""
              THEN [ok |-> TRUE,
                    arguments |-> Append(arguments,
                        [name |-> kwargs_param, value |-> DictV(kwargs)])]
              ELSE BindError
         ELSE [ok |-> TRUE, arguments |-> arguments]
    ELSE LET param == parameters[i]
         IN  IF param.kind = "VAR_KEYWORD"
             THEN BindKeywords(parameters, kwargs, i + 1, arguments, param.name)
             ELSE IF param.kind = "VAR_POSITIONAL"
             THEN BindKeywords(parameters, kwargs, i + 1, arguments, kwargs_param)
             ELSE IF HasKey(kwargs, param.name)
             THEN BindKeywords(parameters, Pop(kwargs, param.name), i + 1,
                      Append(arguments, [name |-> param.name,
                                         value |-> Get(kwargs, param.name)]),
                      kwargs_param)
             ELSE IF ~param.hasDefault
             THEN BindError
             ELSE BindKeywords(parameters, kwargs, i + 1, arguments, kwargs_param)

\* sig.bind(*args, **kwargs): ok is FALSE when bind raises its TypeError,
\* else arguments is BoundArguments.arguments.  Defaults are not applied and
\* an empty *args or **kwargs collector gets no key.
SigBind(sig, args, kwargs) ==
    LET first == BindPositional(sig, args, kwargs, 1, 1, <<>>)
    IN  IF ~first.ok THEN BindError
        ELSE BindKeywords(sig, kwargs, first.rest, first.arguments, "")

(***************************************************************************)
(* Exceptions are [type, msg].  DispatchError derives from TypeError.      *)
(***************************************************************************)
Err(type, msg) == [type |-> type, msg |-> msg]

NoErr == Err("", "")

\* isinstance(e, TypeError), the test of an "except TypeError" clause
IsTypeError(e) == e.type \in {"TypeError", "DispatchError"}

\* BoundArguments.args: the leading parameters that have a value, up to the
\* first keyword-only or **kwargs parameter or the first gap.
RECURSIVE BoundArgs(_, _, _)
BoundArgs(sig, arguments, i) ==
    IF i > Len(sig) THEN <<>>
    ELSE LET param == sig[i]
         IN  IF param.kind \in {"VAR_KEYWORD", "KEYWORD_ONLY"} THEN <<>>
             ELSE IF ~HasKey(arguments, param.name) THEN <<>>
             ELSE IF param.kind = "VAR_POSITIONAL"
             THEN Get(arguments, param.name).items \o BoundArgs(sig, arguments, i + 1)
             ELSE <<Get(arguments, param.name)>> \o BoundArgs(sig, arguments, i + 1)

\* The (name, value) pairs of a dict value
DictItems(d) == [k \in 1..Len(d.items) |->
                    [name |-> d.items[k].items[1].s, value |-> d.items[k].items[2]]]

\* BoundArguments.kwargs: every bound parameter from the first keyword-only
\* or **kwargs parameter, or from the first gap, on.
RECURSIVE BoundKwargs(_, _, _, _)
BoundKwargs(sig, arguments, i, kwargs_started) ==
    IF i > Len(sig) THEN <<>>
    ELSE LET param == sig[i]
             started == kwargs_started
                        \/ param.kind \in {"VAR_KEYWORD", "KEYWORD_ONLY"}
                        \/ ~HasKey(arguments, param.name)
         IN  IF ~started \/ ~HasKey(arguments, param.name)
             THEN BoundKwargs(sig, arguments, i + 1, started)
             ELSE (IF param.kind = "VAR_KEYWORD"
                   THEN DictItems(Get(arguments, param.name))
                   ELSE <<[name |-> param.name, value |-> Get(arguments, param.name)]>>)
                  \o BoundKwargs(sig, arguments, i + 1, started)

\* AllMatch with the matcher applied to each element of a collected tuple
\* instead of to the tuple.
RECURSIVE AllMatchEach(_, _, _, _)
AllMatchEach(param_matchers, arguments, i, evals) ==
    IF i > Len(param_matchers) THEN [res |-> "True", err |-> NoErr, evals |-> evals]
    ELSE LET pm == param_matchers[i]
         IN  IF ~HasKey(arguments, pm.name)
             THEN [res |-> "raise", err |-> Err("KeyError", pm.name), evals |-> evals]
             ELSE LET x == Get(arguments, pm.name)
                      xs == IF x.ty = "tuple" THEN x.items ELSE <<x>>
                      rs == {ApplyMatcher(pm.matcher, xs[k]) : k \in 1..Len(xs)}
                      r == IF rs \subseteq {"True"} THEN "True"
                           ELSE IF rs \subseteq {"True", "False"} THEN "False"
                           ELSE CHOOSE e \in rs : e \notin {"True", "False"}
                      log == evals \o [k \in 1..Len(xs) |-> [name |-> pm.name, value |-> xs[k]]]
                  IN  IF r = "True" THEN AllMatchEach(param_matchers, arguments, i + 1, log)
                      ELSE IF r = "False"
                      THEN [res |-> "False", err |-> NoErr, evals |-> log]
                      ELSE [res |-> "raise", err |-> Err(r, pm.matcher.annotation.name),
                            evals |-> log]

\* all(param_matcher(bound.arguments[param_name]) for ...): the generator is
\* consumed in order and stops at the first falsy result or the first error.
\* evals logs every matcher call as [name, value].
RECURSIVE AllMatch(_, _, _, _)
AllMatch(param_matchers, arguments, i, evals) ==
    IF i > Len(param_matchers) THEN [res |-> "True", err |-> NoErr, evals |-> evals]
    ELSE LET pm == param_matchers[i]
         IN  IF ~HasKey(arguments, pm.name)
             THEN [res |-> "raise", err |-> Err("KeyError", pm.name), evals |-> evals]
             ELSE LET x == Get(arguments, pm.name)
                      r == ApplyMatcher(pm.matcher, x)
                      log == Append(evals, [name |-> pm.name, value |-> x])
                  IN  IF r = "True" THEN AllMatch(param_matchers, arguments, i + 1, log)
                      ELSE IF r = "False"
                      THEN [res |-> "False", err |-> NoErr, evals |-> log]
                      ELSE [res |-> "raise", err |-> Err(r, pm.matcher.annotation.name),
                            evals |-> log]

\* _bind_args going on to the matchers when the signature did not accept
\* the arguments, as if nothing had been bound
_bind_args_unbound(sig, param_matchers, args, kwargs) ==
    LET bound == SigBind(sig, args, kwargs)
        arguments == IF bound.ok THEN bound.arguments ELSE <<>>
        all == AllMatch(param_matchers, arguments, 1, <<>>)
    IN  IF all.res = "raise"
        THEN [status |-> "raise", err |-> all.err,
              arguments |-> <<>>, evals |-> all.evals]
        ELSE IF all.res = "False"
        THEN [status |-> "raise", err |-> Err("TypeError", ""),
              arguments |-> <<>>, evals |-> all.evals]
        ELSE [status |-> "bound", err |-> NoErr,
              arguments |-> arguments, evals |-> all.evals]

\* DispatchGroup._bind_args (dispatching.py) / bind_args (dispatch.py)
_bind_args(sig, param_matchers, args, kwargs) ==
    LET bound == SigBind(sig, args, kwargs)
    IN  IF ~bound.ok
        THEN [status |-> "raise", err |-> Err("TypeError", "sig.bind"),
              arguments |-> <<>>, evals |-> <<>>]
        ELSE LET all == AllMatch(param_matchers, bound.arguments, 1, <<>>)
             IN  IF all.res = "raise"
                 THEN [status |-> "raise", err |-> all.err,
                       arguments |-> <<>>, evals |-> all.evals]
                 ELSE IF all.res = "False"
                 THEN [status |-> "raise", err |-> Err("TypeError", ""),
                       arguments |-> <<>>, evals |-> all.evals]
                 ELSE [status |-> "bound", err |-> NoErr,
                       arguments |-> bound.arguments, evals |-> all.evals]

(***************************************************************************)
(* Functions and entries.  A function is [name, params, body]; name stands *)
(* for the identity of the function object, body tells what a call of it   *)
(* does.  An entry of callees is the pair (bind_args, func), bind_args      *)
(* being partial(_bind_args, sig, matchers).                               *)
(***************************************************************************)
Func(name, params, body) == [name |-> name, params |-> params, body |-> body]

NoFunc == Func("", <<>>, "")

\* signature(func)
signature(func) == func.params

\* The names bound in the namespace of the module dispatching
ModuleAttributes ==
    {"signature", "Parameter", "wraps", "partial", "deque",
     "DispatchError", "DispatchGroup", "dispatch", "all_match"}

\* The value of an annotation when its def statement is executed.  An
\* attribute that the module does not have raises AttributeError; of the
\* module's attributes the programs of the model call all_match only.
EvalAnnotation(annotation) ==
    IF annotation.cls # "expression"
    THEN [ok |-> TRUE, value |-> annotation, err |-> NoErr]
    ELSE IF annotation.name \notin ModuleAttributes
    THEN [ok |-> FALSE, value |-> annotation,
          err |-> Err("AttributeError", annotation.name)]
    ELSE IF annotation.name = "all_match"
    THEN [ok |-> TRUE, value |-> all_match(Inner(annotation)), err |-> NoErr]
    ELSE [ok |-> FALSE, value |-> annotation, err |-> Err("TypeError", annotation.name)]

\* The def statement of func: the annotations are evaluated in parameter
\* order, the first error ends the statement and no function is made.
Def(func) ==
    LET evals == [p \in 1..Len(func.params) |-> EvalAnnotation(func.params[p].annotation)]
        bad == {p \in 1..Len(func.params) : ~evals[p].ok}
    IN  IF bad = {}
        THEN [ok |-> TRUE, err |-> NoErr,
              func |-> [func EXCEPT !.params =
                           [p \in 1..Len(func.params) |->
                               [func.params[p] EXCEPT !.annotation = evals[p].value]]]]
        ELSE [ok |-> FALSE, func |-> NoFunc,
              err |-> evals[CHOOSE p \in bad : \A q \in bad : p <= q].err]

\* DispatchGroup._make_dispatch
_make_dispatch(func) ==
    LET sig == signature(func)
        matchers == _make_all_matchers(sig)
    IN  [sig |-> sig, matchers |-> matchers, func |-> func]

\* bind_args(args, kwargs) of an entry
CallBinder(entry, args, kwargs) == _bind_args(entry.sig, entry.matchers, args, kwargs)

\* callee(*args, **kwargs): what the body of the function does with the
\* arguments it receives.  "return" bodies return a value naming the
\* function; the raising bodies are those of test_raises (raise
\* TypeError('non dispatch')) and test_predicate_match (raise ValueError).
Invoke(func, args, kwargs) ==
    CASE func.body = "raise TypeError" ->
           [kind |-> "raise", err |-> Err("TypeError", "non dispatch"), value |-> ""]
      [] func.body = "raise ValueError" ->
           [kind |-> "raise", err |-> Err("ValueError", ""), value |-> ""]
      [] OTHER ->
           [kind |-> "return", err |-> NoErr, value |-> func.name]

\* The body of func calls the group again: return func(y, x)
Redispatches(func) == func.body = "swap"

\* The arguments of the call that the body of func makes, func having been
\* called with args and kwargs: func(y, x), y and x being its parameters.
BodyCall(func, args, kwargs) ==
    LET locals == SigBind(signature(func), args, kwargs).arguments
    IN  <<Get(locals, "y"), Get(locals, "x")>>

\* One record per dispatch that a body started: the arguments, the entry
\* selected and the binders called.
NestedCall(args, kwargs, n) ==
    [args |-> args, kwargs |-> kwargs, index |-> n.index,
     func |-> n.callee.name, outcomes |-> n.outcomes]

\* One record per call of a function of the group: which function, and the
\* positional and named arguments it received.
Invocation(func, args, kwargs) == [func |-> func.name, args |-> args, kwargs |-> kwargs]

\* What the caller of a binder sees, logged per entry tried.
Outcome(b) == [status |-> b.status, err |-> b.err, evals |-> b.evals]

(***************************************************************************)
(* dispatching.DispatchGroup                                               *)
(***************************************************************************)
\* The loop of lookup_explicit with "except Exception" for "except TypeError"
RECURSIVE LookupFromCatchAll(_, _, _, _, _)
LookupFromCatchAll(cs, args, kwargs, i, outcomes) ==
    IF i > Len(cs)
    THEN [kind |-> "raise", err |-> Err("DispatchError", ""), callee |-> NoFunc,
          index |-> 0, outcomes |-> outcomes]
    ELSE LET b == CallBinder(cs[i], args, kwargs)
             log == Append(outcomes, Outcome(b))
         IN  IF b.status = "raise"
             THEN LookupFromCatchAll(cs, args, kwargs, i + 1, log)
             ELSE [kind |-> "return", err |-> NoErr, callee |-> cs[i].func,
                   index |-> i, outcomes |-> log]

\* The for loop of lookup_explicit from entry i on; outcomes logs the
\* binders already called.
RECURSIVE LookupFrom(_, _, _, _, _)
LookupFrom(cs, args, kwargs, i, outcomes) ==
    LET Tried(b, log) ==
            IF b.status = "raise"
            THEN IF IsTypeError(b.err)
                 THEN LookupFrom(cs, args, kwargs, i + 1, log)
                 ELSE [kind |-> "raise", err |-> b.err, callee |-> NoFunc,
                       index |-> 0, outcomes |-> log]
            ELSE [kind |-> "return", err |-> NoErr, callee |-> cs[i].func,
                  index |-> i, outcomes |-> log]
        Try(b) == Tried(b, Append(outcomes, Outcome(b)))
    IN  IF i > Len(cs)
        THEN [kind |-> "raise", err |-> Err("DispatchError", ""), callee |-> NoFunc,
              index |-> 0, outcomes |-> outcomes]
        ELSE Try(CallBinder(cs[i], args, kwargs))

\* lookup_explicit iterating reversed(self.callees)
lookup_explicit_reversed(cs, args, kwargs) ==
    LET rev == [i \in 1..Len(cs) |-> cs[Len(cs) + 1 - i]]
        r == LookupFrom(rev, args, kwargs, 1, <<>>)
    IN  [r EXCEPT !.index = IF @ = 0 THEN 0 ELSE Len(cs) + 1 - @]

\* DispatchGroup.lookup_explicit
lookup_explicit(cs, args, kwargs) == LookupFrom(cs, args, kwargs, 1, <<>>)

\* lookup passing an empty dict for kwargs
lookup_positional(cs, args, kwargs) ==
    LET r == lookup_explicit(cs, args, <<>>)
    IN  [kind |-> r.kind, err |-> r.err, value |-> "", callee |-> r.callee,
         index |-> r.index, outcomes |-> r.outcomes, invoked |-> <<>>,
         nested |-> <<>>]

\* DispatchGroup.lookup(*args, **kwargs): args[0] is the group
lookup(cs, args, kwargs) ==
    LET Found(r) ==
            [kind |-> r.kind, err |-> r.err, value |-> "", callee |-> r.callee,
             index |-> r.index, outcomes |-> r.outcomes, invoked |-> <<>>,
             nested |-> <<>>]
    IN  Found(lookup_explicit(cs, args, kwargs))

\* execute with the call of the implementation inside the try of the
\* search: a TypeError of the body moves the search on to the next entry.
RECURSIVE ExecuteCatchingFrom(_, _, _, _, _, _)
ExecuteCatchingFrom(cs, args, kwargs, i, outcomes, invoked) ==
    LET r == LookupFrom(cs, args, kwargs, i, outcomes)
    IN  IF r.kind = "raise"
        THEN [kind |-> "raise", err |-> r.err, value |-> "", callee |-> NoFunc,
              index |-> 0, outcomes |-> r.outcomes, invoked |-> invoked,
              nested |-> <<>>]
        ELSE LET c == Invoke(r.callee, args, kwargs)
                 inv == Append(invoked, Invocation(r.callee, args, kwargs))
             IN  IF c.kind = "raise" /\ IsTypeError(c.err)
                 THEN ExecuteCatchingFrom(cs, args, kwargs, r.index + 1, r.outcomes, inv)
                 ELSE [kind |-> c.kind, err |-> c.err, value |-> c.value,
                       callee |-> r.callee, index |-> r.index,
                       outcomes |-> r.outcomes, invoked |-> inv, nested |-> <<>>]

execute_catching(cs, args, kwargs) == ExecuteCatchingFrom(cs, args, kwargs, 1, <<>>, <<>>)

\* execute calling the implementation with bound.args and bound.kwargs
execute_canonical(cs, args, kwargs) ==
    LET r == lookup_explicit(cs, args, kwargs)
    IN  IF r.kind = "raise"
        THEN [kind |-> "raise", err |-> r.err, value |-> "", callee |-> NoFunc,
              index |-> 0, outcomes |-> r.outcomes, invoked |-> <<>>,
              nested |-> <<>>]
        ELSE LET sig == signature(r.callee)
                 b == SigBind(sig, args, kwargs)
                 bargs == BoundArgs(sig, b.arguments, 1)
                 bkwargs == BoundKwargs(sig, b.arguments, 1, FALSE)
                 c == Invoke(r.callee, bargs, bkwargs)
             IN  [kind |-> c.kind, err |-> c.err, value |-> c.value,
                  callee |-> r.callee, index |-> r.index, outcomes |-> r.outcomes,
                  invoked |-> <<Invocation(r.callee, bargs, bkwargs)>>,
                  nested |-> <<>>]

\* ExecuteAt with the nested dispatch of a body resuming the search behind
\* the entry that is being served
RECURSIVE ExecuteFromResuming(_, _, _, _, _)
ExecuteFromResuming(cs, args, kwargs, depth, start) ==
    LET r == LookupFrom(cs, args, kwargs, start, <<>>)
    IN  IF r.kind = "raise"
        THEN [kind |-> "raise", err |-> r.err, value |-> "", callee |-> NoFunc,
              index |-> 0, outcomes |-> r.outcomes, invoked |-> <<>>,
              nested |-> <<>>]
        ELSE IF Redispatches(r.callee)
        THEN IF depth >= MaxDepth
             THEN [kind |-> "raise", err |-> Err("RecursionError", ""), value |-> "",
                   callee |-> r.callee, index |-> r.index, outcomes |-> r.outcomes,
                   invoked |-> <<Invocation(r.callee, args, kwargs)>>, nested |-> <<>>]
             ELSE LET nargs == BodyCall(r.callee, args, kwargs)
                      n == ExecuteFromResuming(cs, nargs, <<>>, depth + 1, r.index + 1)
                  IN  [kind |-> n.kind, err |-> n.err, value |-> n.value,
                       callee |-> r.callee, index |-> r.index, outcomes |-> r.outcomes,
                       invoked |-> <<Invocation(r.callee, args, kwargs)>>,
                       nested |-> <<NestedCall(nargs, <<>>, n)>> \o n.nested]
        ELSE LET c == Invoke(r.callee, args, kwargs)
             IN  [kind |-> c.kind, err |-> c.err, value |-> c.value,
                  callee |-> r.callee, index |-> r.index, outcomes |-> r.outcomes,
                  invoked |-> <<Invocation(r.callee, args, kwargs)>>, nested |-> <<>>]

ExecuteAtResuming(cs, args, kwargs, depth) ==
    ExecuteFromResuming(cs, args, kwargs, depth, 1)

\* DispatchGroup.execute at depth nested dispatches below the program's
\* call: self.lookup_explicit(args, kwargs)(*args, **kwargs).  A body that
\* calls the wrapper runs execute again, one level deeper, and returns what
\* it returns; the error of a nested call passes through the body.
RECURSIVE ExecuteAt(_, _, _, _)
ExecuteAt(cs, args, kwargs, depth) ==
    LET Raised(r) ==
            [kind |-> "raise", err |-> r.err, value |-> "", callee |-> NoFunc,
             index |-> 0, outcomes |-> r.outcomes, invoked |-> <<>>,
             nested |-> <<>>]
        Overflow(r) ==
            [kind |-> "raise", err |-> Err("RecursionError", ""), value |-> "",
             callee |-> r.callee, index |-> r.index, outcomes |-> r.outcomes,
             invoked |-> <<Invocation(r.callee, args, kwargs)>>, nested |-> <<>>]
        Returned(r, c) ==
            [kind |-> c.kind, err |-> c.err, value |-> c.value,
             callee |-> r.callee, index |-> r.index, outcomes |-> r.outcomes,
             invoked |-> <<Invocation(r.callee, args, kwargs)>>, nested |-> <<>>]
        Passed(r, nargs, n) ==
            [kind |-> n.kind, err |-> n.err, value |-> n.value,
             callee |-> r.callee, index |-> r.index, outcomes |-> r.outcomes,
             invoked |-> <<Invocation(r.callee, args, kwargs)>>,
             nested |-> <<NestedCall(nargs, <<>>, n)>> \o n.nested]
        Body(r, nargs) == Passed(r, nargs, ExecuteAt(cs, nargs, <<>>, depth + 1))
        Call(r) ==
            IF r.kind = "raise" THEN Raised(r)
            ELSE IF Redispatches(r.callee)
            THEN IF depth >= MaxDepth THEN Overflow(r)
                 ELSE Body(r, BodyCall(r.callee, args, kwargs))
            ELSE Returned(r, Invoke(r.callee, args, kwargs))
    IN  Call(lookup_explicit(cs, args, kwargs))

\* DispatchGroup.execute, called by the program
execute(cs, args, kwargs) == ExecuteAt(cs, args, kwargs, 0)

(***************************************************************************)
(* dispatch.DispatchGroup                                                  *)
(***************************************************************************)
\* The for loop of execute_dispatch from entry i on, at depth nested
\* dispatches below the program's call.  The body of a function that calls
\* f(...) calls the group, dispatch having returned it.
RECURSIVE ExecuteDispatchFrom(_, _, _, _, _, _)
ExecuteDispatchFrom(cs, args, kwargs, i, outcomes, depth) ==
    LET Overflow(log, inv) ==
            [kind |-> "raise", err |-> Err("RecursionError", ""),
             value |-> "", callee |-> cs[i].func, index |-> i,
             outcomes |-> log, invoked |-> inv, nested |-> <<>>]
        Returned(log, inv, c) ==
            [kind |-> c.kind, err |-> c.err, value |-> c.value,
             callee |-> cs[i].func, index |-> i, outcomes |-> log,
             invoked |-> inv, nested |-> <<>>]
        Passed(log, inv, nargs, n) ==
            [kind |-> n.kind, err |-> n.err, value |-> n.value,
             callee |-> cs[i].func, index |-> i,
             outcomes |-> log, invoked |-> inv,
             nested |-> <<NestedCall(nargs, <<>>, n)>> \o n.nested]
        Body(log, inv, nargs) ==
            Passed(log, inv, nargs,
                   ExecuteDispatchFrom(cs, nargs, <<>>, 1, <<>>, depth + 1))
        Call(log, bargs, bkwargs, inv) ==
            IF Redispatches(cs[i].func)
            THEN IF depth >= MaxDepth THEN Overflow(log, inv)
                 ELSE Body(log, inv, BodyCall(cs[i].func, bargs, bkwargs))
            ELSE Returned(log, inv, Invoke(cs[i].func, bargs, bkwargs))
        Bound(log, bargs, bkwargs) ==
            Call(log, bargs, bkwargs, <<Invocation(cs[i].func, bargs, bkwargs)>>)
        Tried(b, log) ==
            IF b.status = "raise"
            THEN IF IsTypeError(b.err)
                 THEN ExecuteDispatchFrom(cs, args, kwargs, i + 1, log, depth)
                 ELSE [kind |-> "raise", err |-> b.err, value |-> "",
                       callee |-> NoFunc, index |-> 0, outcomes |-> log,
                       invoked |-> <<>>, nested |-> <<>>]
            ELSE Bound(log, BoundArgs(cs[i].sig, b.arguments, 1),
                       BoundKwargs(cs[i].sig, b.arguments, 1, FALSE))
        Try(b) == Tried(b, Append(outcomes, Outcome(b)))
    IN  IF i > Len(cs)
        THEN [kind |-> "raise", err |-> Err("DispatchError", ""), value |-> "",
              callee |-> NoFunc, index |-> 0, outcomes |-> outcomes, invoked |-> <<>>,
              nested |-> <<>>]
        ELSE Try(CallBinder(cs[i], args, kwargs))

\* DispatchGroup.execute_dispatch, called by the program
execute_dispatch(cs, args, kwargs) == ExecuteDispatchFrom(cs, args, kwargs, 1, <<>>, 0)

\* The group of the model, as the target of a bound method
Self == "self"

\* DispatchGroup._make_wrapper: the executor function and its attributes,
\* each a bound method of the group that made the wrapper
_make_wrapper(group, func) ==
    [func |-> func, execute |-> group, dispatch |-> group,
     dispatch_first |-> group, lookup |-> group]

\* dispatch leaving out a function that is registered already
dispatch_unique(cs, func) ==
    IF \E i \in 1..Len(cs) : cs[i].func = func THEN cs
    ELSE Append(cs, _make_dispatch(func))

\* DispatchGroup.dispatch: self.callees.append(self._make_dispatch(func))
dispatch(cs, func) == Append(cs, _make_dispatch(func))

\* dispatch_first with append for appendleft
dispatch_first_append(cs, func) == Append(cs, _make_dispatch(func))

\* DispatchGroup.dispatch_first: self.callees.appendleft(self._make_dispatch(func))
dispatch_first(cs, func) == <<_make_dispatch(func)>> \o cs

\* DispatchGroup.registered_functions
registered_functions(cs) == [i \in 1..Len(cs) |-> cs[i].func]

(***************************************************************************)
(* The functions a program registers and the calls it makes.  They are     *)
(* those of the tests and examples, grouped in suites; a behaviour works   *)
(* within one suite.                                                       *)
(***************************************************************************)
func_str == Func("func_str", <<Pos("x", TypeAnn("str"))>>, "return")

func_other == Func("func_other", <<Pos("x", Empty)>>, "return")

func_int == Func("func_int", <<Pos("x", TypeAnn("int"))>>, "return")

func_list_raises == Func("func_list_raises", <<Pos("x", TypeAnn("list"))>>, "raise TypeError")

func_parses == Func("func_parses", <<Pos("x", FuncAnn("parses_positive"))>>, "return")

func_default == Func("func_default", <<PosDefault("x", TypeAnn("int"))>>, "return")

func_other_default == Func("func_other_default",
                           <<Pos("x", Empty), PosDefault("y", TypeAnn("int"))>>, "return")

func_kwargs == Func("func_kwargs", <<VarKw("kwargs", TypeAnn("dict"))>>, "return")

func_int_int == Func("func_int_int",
                     <<Pos("x", TypeAnn("int")), Pos("y", TypeAnn("int"))>>, "return")

func_int_other == Func("func_int_other",
                       <<Pos("x", TypeAnn("int")), Pos("y", Empty)>>, "return")

func_other_int == Func("func_other_int",
                       <<Pos("x", Empty), Pos("y", TypeAnn("int"))>>, "return")

func_other_other == Func("func_other_other", <<Pos("x", Empty), Pos("y", Empty)>>, "return")

func_star == Func("func_star", <<VarPos("args", Empty), VarKw("kwargs", Empty)>>, "return")

combine_int == Func("combine_int", <<VarPos("args", TypeAnn("int"))>>, "return")

combine_str == Func("combine_str", <<VarPos("args", TypeAnn("str"))>>, "return")

func_length_1 == Func("func_length_1", <<VarPos("args", FuncAnn("is_length_1"))>>, "return")

func_length_2 == Func("func_length_2", <<VarPos("args", FuncAnn("is_length_2"))>>, "return")

func_tuple == Func("func_tuple", <<VarPos("args", TypeAnn("tuple"))>>, "return")

func_args == Func("func_args", <<VarPos("args", Empty)>>, "return")

func_Foo == Func("func_Foo", <<Pos("x", TypeAnn("Foo"))>>, "return")

func_empty_list == Func("func_empty_list", <<Pos("x", ValueAnn(ListV(<<>>)))>>, "return")

func_list == Func("func_list", <<Pos("x", TypeAnn("list"))>>, "return")

func_even == Func("func_even", <<Pos("x", FuncAnn("is_even"))>>, "return")

func_each_even == Func("func_each_even",
                       <<VarPos("args", AttrCall("each", FuncAnn("is_even")))>>, "return")

func_each_odd == Func("func_each_odd",
                      <<VarPos("args", AttrCall("each", FuncAnn("is_odd")))>>, "return")

func_all_even == Func("func_all_even",
                      <<VarPos("args", AttrCall("all_match", FuncAnn("is_even")))>>, "return")

func_all_odd == Func("func_all_odd",
                     <<VarPos("args", AttrCall("all_match", FuncAnn("is_odd")))>>, "return")

func_all_int == Func("func_all_int",
                     <<VarPos("args", AttrCall("all_match", TypeAnn("int")))>>, "return")

func_swap == Func("func_swap", <<Pos("x", Empty), Pos("y", TypeAnn("int"))>>, "swap")

Suites == {"single", "pair", "varargs", "collectors", "classes", "history", "each",
           "inversion"}

SuiteFuncs(st) ==
    CASE st = "single" -> {func_str, func_other, func_int, func_list_raises,
                           func_parses}
      [] st = "collectors" -> {func_default, func_other_default, func_kwargs,
                               func_tuple, func_each_even}
      [] st = "inversion" -> {func_int_other, func_swap, func_other_other, func_other}
      [] st = "each" -> {func_each_even, func_each_odd, func_all_even,
                         func_all_odd, func_all_int, func_args}
      [] st = "pair" -> {func_int_int, func_int_other, func_other_int, func_star}
      [] st = "history" -> {func_int, func_str}
      [] st = "classes" -> {func_Foo, func_empty_list, func_list, func_even}
      [] OTHER -> {combine_int, combine_str, func_length_1, func_length_2,
                   func_args}

Call(args, kwargs) == [args |-> args, kwargs |-> kwargs]

Kw(name, value) == [name |-> name, value |-> value]

SuiteCalls(st) ==
    CASE st = "single" ->
           {Call(<<IntV(1)>>, <<>>), Call(<<StrV("hello")>>, <<>>),
            Call(<<ListV(<<>>)>>, <<>>), Call(<<FloatV(1, "5")>>, <<>>),
            Call(<<>>, <<Kw("x", IntV(1))>>), Call(<<>>, <<>>)}
      [] st = "collectors" ->
           {Call(<<>>, <<>>), Call(<<IntV(1)>>, <<>>), Call(<<IntV(1), IntV(2)>>, <<>>),
            Call(<<>>, <<Kw("x", IntV(1))>>), Call(<<>>, <<Kw("z", IntV(1))>>),
            Call(<<StrV("hello")>>, <<Kw("y", StrV("world"))>>)}
      [] st = "pair" ->
           {Call(<<IntV(1), IntV(2)>>, <<>>), Call(<<IntV(1), StrV("hello")>>, <<>>),
            Call(<<StrV("hello"), IntV(1)>>, <<>>),
            Call(<<StrV("hello"), StrV("world")>>, <<>>),
            Call(<<IntV(1)>>, <<Kw("y", IntV(2))>>),
            Call(<<>>, <<Kw("y", IntV(1)), Kw("x", StrV("hello"))>>),
            Call(<<IntV(1)>>, <<>>)}
      [] st = "inversion" ->
           {Call(<<IntV(1), IntV(2)>>, <<>>), Call(<<IntV(1), StrV("hello")>>, <<>>),
            Call(<<StrV("hello"), IntV(1)>>, <<>>),
            Call(<<StrV("hello"), StrV("world")>>, <<>>),
            Call(<<>>, <<Kw("y", IntV(1)), Kw("x", StrV("hello"))>>),
            Call(<<IntV(1)>>, <<>>)}
      [] st = "each" ->
           {Call(<<IntV(2), IntV(4), IntV(6)>>, <<>>),
            Call(<<IntV(1), IntV(3), IntV(5)>>, <<>>),
            Call(<<IntV(1), IntV(2), IntV(3)>>, <<>>),
            Call(<<IntV(2), StrV("x")>>, <<>>), Call(<<>>, <<>>)}
      [] st = "history" ->
           {Call(<<IntV(1)>>, <<>>), Call(<<StrV("hello")>>, <<>>)}
      [] st = "classes" ->
           {Call(<<ObjV("Foo")>>, <<>>), Call(<<ObjV("Bar")>>, <<>>),
            Call(<<IntV(2)>>, <<>>), Call(<<ListV(<<>>)>>, <<>>),
            Call(<<ListV(<<IntV(1), IntV(2), IntV(3)>>)>>, <<>>),
            Call(<<TupleV(<<>>)>>, <<>>)}
      [] OTHER ->
           {Call(<<IntV(1), IntV(2), IntV(3)>>, <<>>),
            Call(<<StrV("Hello "), StrV("World")>>, <<>>),
            Call(<<IntV(1), StrV("x")>>, <<>>),
            Call(<<IntV(1)>>, <<>>), Call(<<IntV(1), IntV(2)>>, <<>>),
            Call(<<>>, <<>>)}

(***************************************************************************)
(* State.  lib tells which module's DispatchGroup the group is, callees is *)
(* its deque, last records the last operation on the group and its         *)
(* result.  history is the log of the registrations a program of the       *)
(* history suite has made, each with the object it was issued on: the      *)
(* group, or a wrapper that an earlier registration returned.              *)
(***************************************************************************)
NoResult == [kind |-> "none", err |-> NoErr, value |-> "", callee |-> NoFunc,
             index |-> 0, outcomes |-> <<>>, invoked |-> <<>>, nested |-> <<>>]

Op(op, func, args, kwargs, res) ==
    [op |-> op, func |-> func, args |-> args, kwargs |-> kwargs, res |-> res]

Registration(op, func, via) == [op |-> op, func |-> func.name, via |-> via]

\* The objects a program registers on: the group, and in the programs of
\* the history suite also the wrappers that dispatch and dispatch_first of
\* dispatching.py returned (dispatch.py returns the group itself).
Vias ==
    IF suite = "history" /\ lib = "dispatching" /\ callees # <<>>
    THEN {"group", "wrapper"} ELSE {"group"}

\* The group that the method named attr of the object via is bound to
Target(via, attr) ==
    IF via = "wrapper"
    THEN LET wrapper == _make_wrapper(Self, callees[1].func)
         IN  IF attr = "dispatch" THEN wrapper.dispatch ELSE wrapper.dispatch_first
    ELSE Self

Log(registration) ==
    IF suite = "history" THEN Append(history, registration) ELSE history

\* DispatchGroup.__init__: self.callees = deque()
Init ==
    /\ lib \in {"dispatching", "dispatch"}
    /\ suite \in Suites
    /\ callees = <<>>
    /\ last = Op("init", NoFunc, <<>>, <<>>, NoResult)
    /\ history = <<>>

\* A def statement under @group.dispatch or @group.dispatch_first whose
\* annotations cannot be evaluated: the statement raises, no function is
\* made and the decorator is not called.
DefRaises ==
    \E func \in SuiteFuncs(suite) :
        /\ ~Def(func).ok
        /\ last' = Op("def", func, <<>>, <<>>,
                      [NoResult EXCEPT !.kind = "raise", !.err = Def(func).err])
        /\ UNCHANGED <<lib, suite, callees, history>>

\* group.dispatch(func), or wrapper.dispatch(func), func made by its def
\* statement
Dispatch ==
    \E f \in SuiteFuncs(suite), via \in Vias :
        LET func == Def(f).func
        IN  /\ Def(f).ok
            /\ Len(callees) < MaxEntries
            /\ callees' = IF Target(via, "dispatch") = Self
                          THEN dispatch(callees, func) ELSE callees
            /\ last' = Op("dispatch", func, <<>>, <<>>, NoResult)
            /\ history' = Log(Registration("dispatch", func, via))
            /\ UNCHANGED <<lib, suite>>

\* group.dispatch_first(func), or wrapper.dispatch_first(func)
DispatchFirst ==
    \E f \in SuiteFuncs(suite), via \in Vias :
        LET func == Def(f).func
        IN  /\ Def(f).ok
            /\ Len(callees) < MaxEntries
            /\ callees' = IF Target(via, "dispatch_first") = Self
                          THEN dispatch_first(callees, func) ELSE callees
            /\ last' = Op("dispatch_first", func, <<>>, <<>>, NoResult)
            /\ history' = Log(Registration("dispatch_first", func, via))
            /\ UNCHANGED <<lib, suite>>

\* group.execute(args, kwargs), group(*args, **kwargs), wrapper(*args, **kwargs)
Execute ==
    \E c \in SuiteCalls(suite) :
        /\ lib = "dispatching"
        /\ last' = Op("execute", NoFunc, c.args, c.kwargs,
                      execute(callees, c.args, c.kwargs))
        /\ UNCHANGED <<lib, suite, callees, history>>

\* group.lookup(*args, **kwargs), group.lookup_explicit(args, kwargs),
\* wrapper.lookup(*args, **kwargs)
Lookup ==
    \E c \in SuiteCalls(suite) :
        /\ lib = "dispatching"
        /\ last' = Op("lookup", NoFunc, c.args, c.kwargs,
                      lookup(callees, c.args, c.kwargs))
        /\ UNCHANGED <<lib, suite, callees, history>>

\* group.execute_dispatch(args, kwargs), group(*args, **kwargs) of dispatch.py
ExecuteDispatch ==
    \E c \in SuiteCalls(suite) :
        /\ lib = "dispatch"
        /\ last' = Op("execute_dispatch", NoFunc, c.args, c.kwargs,
                      execute_dispatch(callees, c.args, c.kwargs))
        /\ UNCHANGED <<lib, suite, callees, history>>

Next == DefRaises \/ Dispatch \/ DispatchFirst \/ Execute \/ Lookup \/ ExecuteDispatch

Spec == Init /\ [][Next]_vars

\* The programs whose functions have defaults and *args, **kwargs collectors
InitCollectors == Init /\ suite = "collectors"

SpecCollectors == InitCollectors /\ [][Next]_vars

(***************************************************************************)
(* Properties                                                              *)
(***************************************************************************)
IsExec == last.op \in {"execute", "execute_dispatch"}

IsCall == IsExec \/ last.op = "lookup"

\* The binder of the entry at position i accepts the arguments of the last call.
Binds(i) == CallBinder(callees[i], last.args, last.kwargs).status = "bound"

\* The function of the group whose name is name
FuncNamed(name) ==
    callees[CHOOSE i \in 1..Len(callees) : callees[i].func.name = name].func

\* The parameters of a signature without their annotations
Shape(sig) == [i \in 1..Len(sig) |->
                  [name |-> sig[i].name, kind |-> sig[i].kind,
                   hasDefault |-> sig[i].hasDefault]]

C2_BodyErrorEscapes ==
    IsExec =>
        \A k \in 1..Len(last.res.invoked) :
            LET f == FuncNamed(last.res.invoked[k].func)
            IN  f.body \in {"raise TypeError", "raise ValueError"}
                => /\ last.res.kind = "raise"
                   /\ last.res.err = Invoke(f, last.args, last.kwargs).err
                   /\ last.res.err.type # "DispatchError"
                   /\ last.res.callee = f
                   /\ Len(last.res.outcomes) = last.res.index
                   /\ Len(last.res.invoked) = 1

\* The body of the matched entry raised TypeError and a later entry accepts
\* the same call.
C2_Witness ==
    /\ IsExec
    /\ last.res.invoked # <<>>
    /\ last.res.callee.body = "raise TypeError"
    /\ last.res.err = Err("TypeError", "non dispatch")
    /\ \E k \in (last.res.index + 1)..Len(callees) : Binds(k)

\* C3: if the binder of no entry accepts the call, execute and lookup fail
\* with DispatchError and with no other kind of error.
C3_NoMatchIsDispatchError ==
    (IsCall /\ \A i \in 1..Len(callees) : ~Binds(i))
    => (last.res.kind = "raise" /\ last.res.err.type = "DispatchError")

\* group.execute(args, kwargs) of the module the group comes from
Serve(cs, c) == IF lib = "dispatching" THEN execute(cs, c.args, c.kwargs)
                ELSE execute_dispatch(cs, c.args, c.kwargs)

\* C4, one step of it: dispatch_first(B) puts B before every entry that was
\* registered earlier and keeps their order; a call that B's binder accepts
\* is then served by B; a call that B's binder refuses (with the TypeError
\* of a mismatch) is served as before: same result or error, same
\* implementation invoked with the same arguments, the earlier binders
\* called in the same order after B's.  The dispatches that the body of an
\* implementation starts are calls of their own: what they return is theirs
\* to decide, B included.
C4_Step ==
    last'.op = "dispatch_first" =>
        LET B == last'.func
        IN  /\ callees' # <<>>
            /\ callees'[1].func = B
            /\ Tail(callees') = callees
            /\ \A c \in SuiteCalls(suite) :
                 LET b == CallBinder(_make_dispatch(B), c.args, c.kwargs)
                     old == Serve(callees, c)
                     new == Serve(callees', c)
                 IN  /\ b.status = "bound" =>
                            /\ new.index = 1
                            /\ new.callee = B
                            /\ new.invoked # <<>> /\ new.invoked[1].func = B.name
                     /\ (b.status = "raise" /\ b.err.type = "TypeError") =>
                            LET same == [old EXCEPT
                                           !.index = IF @ = 0 THEN 0 ELSE @ + 1,
                                           !.outcomes = <<Outcome(b)>> \o @]
                            IN  IF Redispatches(old.callee)
                                THEN /\ new.callee = same.callee
                                     /\ new.index = same.index
                                     /\ new.outcomes = same.outcomes
                                     /\ new.invoked = same.invoked
                                ELSE new = same

PredicateNames == {"is_even", "is_odd", "is_length_1", "is_length_2", "parses_positive",
                   "all_match"}

\* The binder ended in an error raised by a predicate constraint.
RaisedByPredicate(o) == o.status = "raise" /\ o.err.msg \in PredicateNames

OnlyVarPos(entry) ==
    /\ Len(entry.sig) = 1
    /\ entry.sig[1].kind = "VAR_POSITIONAL"
    /\ entry.sig[1].annotation # Empty

\* C7: a type annotation on *args checks each collected argument: the
\* entry f(*args: T) accepts a call iff every positional argument is an
\* instance of T; with combine(*args: int) before combine(*args: str),
\* combine(1, 2, 3) is served by the int entry.
C7_VarargsTypeChecksEach ==
    IsCall =>
        /\ \A i \in 1..Len(last.res.outcomes) :
             (OnlyVarPos(callees[i]) /\ IsType(callees[i].sig[1].annotation)
                /\ last.kwargs = <<>>)
             => (last.res.outcomes[i].status = "bound"
                 <=> \A k \in 1..Len(last.args) :
                        IsInstance(last.args[k], callees[i].sig[1].annotation.name))
        /\ (registered_functions(callees) = <<combine_int, combine_str>>
              /\ last.args = <<IntV(1), IntV(2), IntV(3)>> /\ last.kwargs = <<>>)
           => last.res.callee = combine_int

\* The calls of the matcher of parameter name that a binder logged
EvalsOf(o, name) == SelectSeq(o.evals, LAMBDA e : e.name = name)

C9_OriginalConvention ==
    (IsExec /\ last.res.invoked # <<>>)
    => /\ last.res.invoked[1].args = last.args
       /\ last.res.invoked[1].kwargs = last.kwargs

\* C9: execute of dispatching.py calls the implementation with exactly the
\* positional sequence and the named arguments the caller passed;
\* execute_dispatch of dispatch.py calls it with bound.args and
\* bound.kwargs, the bound values split again from the signature, which
\* bind every parameter to the value the caller gave it.
C9_ConventionPerModule ==
    (IsExec /\ last.res.invoked # <<>>)
    => LET inv == last.res.invoked[1]
           sig == signature(last.res.callee)
           b == SigBind(sig, last.args, last.kwargs)
       IN  IF last.op = "execute"
           THEN inv.args = last.args /\ inv.kwargs = last.kwargs
           ELSE /\ inv.args = BoundArgs(sig, b.arguments, 1)
                /\ inv.kwargs = BoundKwargs(sig, b.arguments, 1, FALSE)
                /\ SigBind(sig, inv.args, inv.kwargs) = b

\* execute of dispatching.py served a call that mixes positional and named
\* arguments.
C9_Witness ==
    /\ last.op = "execute"
    /\ last.args # <<>>
    /\ last.kwargs # <<>>
    /\ last.res.invoked # <<>>
    /\ last.res.invoked[1].kwargs = last.kwargs

\* Every annotated parameter of the signature has a bound value that the
\* matcher of its annotation accepts.
ConstraintsAccept(sig, arguments) ==
    \A p \in 1..Len(sig) :
        sig[p].annotation # Empty
        => /\ HasKey(arguments, sig[p].name)
           /\ ApplyMatcher(_make_param_matcher(sig[p].annotation),
                           Get(arguments, sig[p].name)) = "True"

\* C10: when the call binds to the signature of an entry, the entry's
\* binder accepts it iff the matcher of every annotated parameter accepts
\* the parameter's bound value, parameters without annotation playing no
\* part; with f(x: int, y: int), f(x: int, y), f(x, y: int) in that order,
\* f(1, 2) selects the first, f(1, 'hello') the second, f('hello', 1) the
\* third and f('hello', 'world') raises DispatchError.
C10_MatchIffConstraintsAccept ==
    IsCall =>
        /\ \A i \in 1..Len(last.res.outcomes) :
             LET b == SigBind(callees[i].sig, last.args, last.kwargs)
             IN  b.ok => (last.res.outcomes[i].status = "bound"
                          <=> ConstraintsAccept(callees[i].sig, b.arguments))
        /\ (registered_functions(callees) = <<func_int_int, func_int_other, func_other_int>>
              /\ last.kwargs = <<>> /\ Len(last.args) = 2)
           => LET x == last.args[1].ty = "int"
                  y == last.args[2].ty = "int"
              IN  /\ (x /\ y) => last.res.callee = func_int_int
                  /\ (x /\ ~y) => last.res.callee = func_int_other
                  /\ (~x /\ y) => last.res.callee = func_other_int
                  /\ (~x /\ ~y) => /\ last.res.kind = "raise"
                                   /\ last.res.err.type = "DispatchError"

\* f('hello', 1) was refused by f(x: int, y: int) and f(x: int, y) and
\* served by f(x, y: int).
C10_Witness ==
    /\ IsCall
    /\ registered_functions(callees) = <<func_int_int, func_int_other, func_other_int>>
    /\ last.args = <<StrV("hello"), IntV(1)>>
    /\ last.res.index = 3

\* The signature of the entry at position i accepts the arguments of the
\* last call.
ShapeFits(i) == SigBind(callees[i].sig, last.args, last.kwargs).ok

\* C11: fallthrough on shape mismatch.  An entry whose signature cannot
\* accept the arguments of the call is skipped: its binder raises without
\* having called any matcher, the error does not reach the caller (the next
\* entry is tried, or the call ends in DispatchError after the last one),
\* and an entry that accepts the call after nothing but such entries is
\* selected; f(func, additional) and f(additional) in one group are each
\* selected by the calls of their own arity.
C11_ShapeMismatchFallsThrough ==
    IsCall =>
        /\ \A i \in 1..Len(last.res.outcomes) :
             ~ShapeFits(i)
             => /\ last.res.outcomes[i].status = "raise"
                /\ last.res.outcomes[i].evals = <<>>
                /\ IF i < Len(callees)
                   THEN Len(last.res.outcomes) > i
                   ELSE /\ last.res.kind = "raise"
                        /\ last.res.err.type = "DispatchError"
        /\ \A i \in 1..Len(callees) :
             (Binds(i) /\ \A j \in 1..(i - 1) : ~ShapeFits(j))
             => /\ last.res.index = i
                /\ last.res.callee = callees[i].func
        /\ (registered_functions(callees) \in {<<func_other_other, func_other>>,
                                               <<func_other, func_other_other>>}
              /\ last.kwargs = <<>>)
           => /\ Len(last.args) = 1 => last.res.callee = func_other
              /\ Len(last.args) = 2 => last.res.callee = func_other_other

\* f(1) skipped f(x: int, y), whose matcher was not called, and f(x, y),
\* and was served by the one-parameter entry behind them.
C11_Witness ==
    /\ IsCall
    /\ registered_functions(callees) = <<func_int_other, func_other_other, func_other>>
    /\ last.args = <<IntV(1)>>
    /\ last.kwargs = <<>>
    /\ ~ShapeFits(1)
    /\ last.res.outcomes[1].evals = <<>>
    /\ last.res.index = 3

\* What the library's documentation says of a constraint a and a value x:
\* a type accepts its instances and those of its subtypes, any other
\* invocable object accepts the values it returns a truthy result for, any
\* other object accepts the values equal to it; the function all_match made
\* of a constraint accepts the tuples whose elements the constraint accepts.
RECURSIVE Accepts(_, _)
Accepts(a, x) ==
    IF a.cls = "type" THEN a.name \in Mro(x.ty)
    ELSE IF a.cls = "function" /\ a.name = "all_match"
    THEN /\ x.ty \in {"tuple", "list"}
         /\ \A k \in 1..Len(x.items) : Accepts(Inner(a), x.items[k])
    ELSE IF a.cls = "function" THEN PredCall(a.name, x) = "True"
    ELSE x = a.v

\* C12: classification of constraints.  Every constraint compiles to one of
\* the three matchers: is-instance for a type, which is therefore never
\* called as a predicate; a call of the constraint for any other invocable
\* object; equality for the rest.  An entry with one constrained parameter
\* accepts a call that binds to it iff the constraint accepts the bound
\* value, a refusal by a type being the plain mismatch signal; x: []
\* accepts the empty list and neither a non-empty list nor an empty tuple.
C12_ClassificationPrecedence ==
    IsCall =>
        \A i \in 1..Len(last.res.outcomes) :
            LET ms == callees[i].matchers
                b == SigBind(callees[i].sig, last.args, last.kwargs)
                o == last.res.outcomes[i]
            IN  /\ \A k \in 1..Len(ms) :
                     LET a == ms[k].matcher.annotation
                     IN  ms[k].matcher.kind =
                             IF a.cls = "type" THEN "isinstance"
                             ELSE IF a.cls = "function" THEN "call"
                             ELSE "equals"
                /\ (Len(ms) = 1 /\ b.ok /\ HasKey(b.arguments, ms[1].name))
                   => LET a == ms[1].matcher.annotation
                          x == Get(b.arguments, ms[1].name)
                      IN  /\ o.status = "bound" <=> Accepts(a, x)
                          /\ (a.cls = "type" /\ ~Accepts(a, x))
                             => o.err = Err("TypeError", "")
                /\ (callees[i].func = func_empty_list /\ last.kwargs = <<>>)
                   => (o.status = "bound" <=> last.args = <<ListV(<<>>)>>)

\* [1, 2, 3] was refused by the predicate is_even and by the literal [],
\* and accepted by the type list, which called as a predicate would have
\* accepted it as well; the run of [] on <<f(x: list)>> is where the two differ.
C12_Witness ==
    /\ IsCall
    /\ registered_functions(callees) = <<func_even, func_empty_list, func_list>>
    /\ last.args = <<ListV(<<IntV(1), IntV(2), IntV(3)>>)>>
    /\ last.res.index = 3

\* The sequence of functions that the registrations h[i..] make of acc:
\* a dispatch appends, a dispatch_first inserts at the head.
RECURSIVE Replay(_, _, _)
Replay(h, i, acc) ==
    IF i > Len(h) THEN acc
    ELSE Replay(h, i + 1, IF h[i].op = "dispatch" THEN Append(acc, h[i].func)
                          ELSE <<h[i].func>> \o acc)

\* C13: registered_functions is a function of the registration history.
\* Whatever dispatch, dispatch_first, execute and lookup operations were
\* issued, on the group or on a wrapper it returned, the functions of
\* registered_functions are those of the history replayed, each dispatch
\* appended and each dispatch_first inserted at the head: one entry per
\* registration, duplicates kept; the function registered last is at the
\* tail after dispatch and at the head after dispatch_first.
C13_RegisteredFunctionsReplayHistory ==
    /\ suite = "history"
       => /\ Len(callees) = Len(history)
          /\ [i \in 1..Len(callees) |-> registered_functions(callees)[i].name]
             = Replay(history, 1, <<>>)
    /\ last.op = "dispatch" => registered_functions(callees)[Len(callees)] = last.func
    /\ last.op = "dispatch_first" => registered_functions(callees)[1] = last.func

\* The same function was registered three times, by dispatch on the group,
\* by dispatch_first on a wrapper and by dispatch on a wrapper with another
\* function in between, and calls were made since.
C13_Witness ==
    /\ suite = "history"
    /\ Len(history) = 3
    /\ history[1] = Registration("dispatch", func_int, "group")
    /\ history[2] = Registration("dispatch_first", func_str, "wrapper")
    /\ history[3] = Registration("dispatch", func_int, "wrapper")
    /\ registered_functions(callees) = <<func_str, func_int, func_int>>
    /\ IsCall

\* The parameters of func annotated with a call of each or all_match
Combined(func) ==
    {p \in 1..Len(func.params) :
        /\ func.params[p].annotation.name \in {"each", "all_match"}
        /\ func.params[p].annotation.cls \in {"expression", "function"}}

\* C14: the library provides each and all_match.  A def statement that
\* annotates a parameter with each(c) or all_match(c) makes a function; an
\* entry whose only constraint is such an annotation on *args accepts a
\* call with positional arguments iff the matcher of c accepts every one of
\* them; with *args: each(is_even), *args: each(is_odd) and *args
\* registered in that order, func(2, 4, 6) selects the first entry,
\* func(1, 3, 5) the second and func(1, 2, 3) the third.
C14_EachAndAllMatchProvided ==
    /\ (last.op = "def" /\ Combined(last.func) # {}) => last.res.kind # "raise"
    /\ IsCall =>
        /\ \A i \in 1..Len(last.res.outcomes) :
             LET func == callees[i].func
             IN  (Combined(func) = {1} /\ OnlyVarPos(callees[i])
                    /\ last.kwargs = <<>> /\ last.args # <<>>)
                 => (last.res.outcomes[i].status = "bound"
                     <=> \A k \in 1..Len(last.args) :
                            Accepts(Inner(func.params[1].annotation), last.args[k]))
        /\ ([i \in 1..Len(callees) |-> callees[i].func.name]
              = <<"func_each_even", "func_each_odd", "func_args">>
              /\ last.kwargs = <<>> /\ last.args # <<>>)
           => LET even == \A k \in 1..Len(last.args) : PredCall("is_even", last.args[k]) = "True"
                  odd == \A k \in 1..Len(last.args) : PredCall("is_odd", last.args[k]) = "True"
              IN  last.res.index = IF even THEN 1 ELSE IF odd THEN 2 ELSE 3

\* The least position of cs whose binder accepts the call, 0 if there is none
FirstAccepting(cs, args, kwargs) ==
    LET accepting == {i \in 1..Len(cs) : CallBinder(cs[i], args, kwargs).status = "bound"}
    IN  IF accepting = {} THEN 0
        ELSE CHOOSE i \in accepting : \A j \in accepting : i <= j

\* C15: the argument-swapping pattern terminates.  With f(x: int, y) ->
\* 'int', f(x, y: int) -> f(y, x) and f(x, y) -> 'other' registered in that
\* order, a call with two arguments returns after at most one nested
\* dispatch; the nested dispatch is of (y, x), searches the entries of the
\* group from the first one and selects the first that accepts; the outer
\* call returns what the nested one returned; the result is that of
\* f(x: int, y) iff x or y is an int and that of f(x, y) otherwise.
C15_SwapPatternTerminates ==
    (/\ IsExec
     /\ registered_functions(callees) = <<func_int_other, func_swap, func_other_other>>
     /\ Len(last.args) + Len(last.kwargs) = 2)
    => LET locals == SigBind(signature(func_swap), last.args, last.kwargs).arguments
           x == Get(locals, "x")
           y == Get(locals, "y")
           n == last.res.nested
       IN  /\ last.res.kind = "return"
           /\ Len(n) <= 1
           /\ Len(n) = 1 <=> last.res.callee = func_swap
           /\ Len(n) = 1 =>
                /\ n[1].args = <<y, x>> /\ n[1].kwargs = <<>>
                /\ n[1].index = FirstAccepting(callees, n[1].args, n[1].kwargs)
                /\ Len(n[1].outcomes) = n[1].index
                /\ n[1].index # 0
                /\ last.res.value = Invoke(callees[n[1].index].func,
                                           n[1].args, n[1].kwargs).value
           /\ last.res.value = IF x.ty = "int" \/ y.ty = "int"
                               THEN func_int_other.name ELSE func_other_other.name

\* f('hello', 1) was served by f(x, y: int), whose nested f(1, 'hello') was
\* served by f(x: int, y).
C15_Witness ==
    /\ IsExec
    /\ registered_functions(callees) = <<func_int_other, func_swap, func_other_other>>
    /\ last.args = <<StrV("hello"), IntV(1)>>
    /\ last.res.index = 2
    /\ Len(last.res.nested) = 1
    /\ last.res.nested[1].index = 1
    /\ last.res.value = func_int_other.name

\* C16: a bound value for every constrained parameter.  For every entry
\* tried by a call that binds to the entry's signature, the bound arguments
\* hold a value for each parameter that has a matcher, an omitted default
\* and an empty *args or **kwargs included, and the binder ends in
\* acceptance or in the TypeError of a mismatch.
C16_BoundValueAvailable ==
    IsCall =>
        \A i \in 1..Len(last.res.outcomes) :
            LET b == SigBind(callees[i].sig, last.args, last.kwargs)
                ms == callees[i].matchers
                o == last.res.outcomes[i]
            IN  b.ok => /\ \A k \in 1..Len(ms) : HasKey(b.arguments, ms[k].name)
                        /\ o.status = "bound" \/ o.err = Err("TypeError", "")

====
